---------------------------- MODULE Spec2Model ----------------------------
(***************************************************************************)
(* Model of simple-sync.js (last revision in the file, lines 681-1067):    *)
(* the standings-table parser parseTable, the table locator and the        *)
(* selection of the best candidate table, the clean-up of a cell,          *)
(* buildFieldMap, createItem, updateItem, publishItems and sync.           *)
(*                                                                         *)
(* Text is a sequence of lexemes.  A lexeme is either one character        *)
(* ("3", " ", "<", "&", ...) or one of the markup lexemes below, each of   *)
(* which stands for exactly the characters it spells.  The single          *)
(* characters used never spell a markup lexeme between them (no "d", "r",  *)
(* "h", "l", "e" among them), so matching a regular expression on lexemes  *)
(* is matching it on the characters.                                       *)
(***************************************************************************)
EXTENDS Integers, Sequences, FiniteSets, TLC

\* ------------------------------------------------------------------ text

\* The heading the parser looks for, /WILKINSON TABLE/i.
Marker == "WILKINSON TABLE"

\* Markup lexemes: each starts with "<", ends with ">" and holds no other ">".
TagLexemes == {"<table>", "</table>", "<tr>", "</tr>", "<td>", "</td>", "<th>", "</th>"}

\* JavaScript's String.prototype.trim white space, as far as the alphabet has it.
WhiteSpace == {" ", "\n"}

Min(S) == CHOOSE x \in S : \A y \in S : x <= y

\* Position of the first lexeme of s at or after from that is in toks; 0 if none.
IndexFrom(s, toks, from) ==
    LET S == {j \in from..Len(s) : s[j] \in toks}
    IN  IF S = {} THEN 0 ELSE Min(S)

\* Whether pat occurs in s at position p.
OccursAt(s, pat, p) ==
    /\ p + Len(pat) - 1 <= Len(s)
    /\ \A k \in 1..Len(pat) : s[p + k - 1] = pat[k]

\* s.replace(/pat/g, rep) for a literal pattern: left to right, non-overlapping.
RECURSIVE ReplaceFrom(_, _, _, _)
ReplaceFrom(s, pat, rep, p) ==
    IF p > Len(s) THEN <<>>
    ELSE IF OccursAt(s, pat, p)
         THEN rep \o ReplaceFrom(s, pat, rep, p + Len(pat))
         ELSE <<s[p]>> \o ReplaceFrom(s, pat, rep, p + 1)

ReplaceAll(s, pat, rep) == ReplaceFrom(s, pat, rep, 1)

\* s.replace(/<[^>]*>/g, ''): from a "<", up to and including the first ">".
\* A markup lexeme closes itself; a lone "<" is closed by the next lexeme
\* that holds a ">", and stays when there is none.
RECURSIVE StripTagsFrom(_, _)
StripTagsFrom(s, p) ==
    IF p > Len(s) THEN <<>>
    ELSE IF s[p] \in TagLexemes THEN StripTagsFrom(s, p + 1)
    ELSE IF s[p] = "<"
         THEN LET c == IndexFrom(s, TagLexemes \cup {">"}, p + 1)
              IN  IF c = 0 THEN <<s[p]>> \o StripTagsFrom(s, p + 1)
                  ELSE StripTagsFrom(s, c + 1)
    ELSE <<s[p]>> \o StripTagsFrom(s, p + 1)

StripTags(s) == StripTagsFrom(s, 1)

\* String.prototype.trim.
Trim(s) ==
    LET S == {j \in 1..Len(s) : s[j] \notin WhiteSpace}
    IN  IF S = {} THEN <<>>
        ELSE SubSeq(s, Min(S), CHOOSE x \in S : \A y \in S : y <= x)

\* The clean-up with the two entity replacements the other way round.
NormalizeCellAmpFirst(raw) ==
    Trim(ReplaceAll(ReplaceAll(StripTags(raw),
                               <<"&", "a", "m", "p", ";">>, <<"&">>),
                    <<"&", "n", "b", "s", "p", ";">>, <<" ">>))

\* The clean-up of one cell's content.
NormalizeCell(raw) ==
    Trim(ReplaceAll(ReplaceAll(StripTags(raw),
                               <<"&", "n", "b", "s", "p", ";">>, <<" ">>),
                    <<"&", "a", "m", "p", ";">>, <<"&">>))

\* ------------------------------------------------------------ parseInt

DecDigits == {"0", "1", "2", "3", "4", "5", "6", "7", "8", "9"}
HexLetters == {"a", "b", "c", "A", "B", "C", "F"}

DigitValue(c) ==
    CASE c = "0" -> 0 [] c = "1" -> 1 [] c = "2" -> 2 [] c = "3" -> 3
      [] c = "4" -> 4 [] c = "5" -> 5 [] c = "6" -> 6 [] c = "7" -> 7
      [] c = "8" -> 8 [] c = "9" -> 9
      [] c \in {"a", "A"} -> 10 [] c \in {"b", "B"} -> 11
      [] c \in {"c", "C"} -> 12 [] c = "F" -> 15

\* Value of the longest prefix of s, read from position p, made of digits of
\* the radix; acc is the value so far, any says whether a digit was read.
RECURSIVE ReadDigits(_, _, _, _, _)
ReadDigits(s, p, radix, acc, any) ==
    IF /\ p <= Len(s)
       /\ s[p] \in (IF radix = 16 THEN DecDigits \cup HexLetters ELSE DecDigits)
    THEN ReadDigits(s, p + 1, radix, acc * radix + DigitValue(s[p]), TRUE)
    ELSE [nan |-> ~any, val |-> acc]

\* parseInt(s) with no radix: leading white space, an optional sign, an
\* optional 0x / 0X prefix, then the longest run of digits; NaN when there is
\* no digit.  The result is [nan, val], val meaningful when nan is FALSE.
ParseInt(s) ==
    LET ws   == {j \in 1..Len(s) : s[j] \notin WhiteSpace}
        b    == IF ws = {} THEN Len(s) + 1 ELSE Min(ws)
        neg  == b <= Len(s) /\ s[b] = "-"
        d    == IF b <= Len(s) /\ s[b] \in {"-", "+"} THEN b + 1 ELSE b
        hex  == d + 1 <= Len(s) /\ s[d] = "0" /\ s[d + 1] \in {"x", "X"}
        r    == IF hex THEN ReadDigits(s, d + 2, 16, 0, FALSE)
                ELSE ReadDigits(s, d, 10, 0, FALSE)
    IN  [nan |-> r.nan, val |-> IF neg THEN 0 - r.val ELSE r.val]

\* parseInt(s) || 0
ParseIntOr0(s) == LET r == ParseInt(s) IN IF r.nan THEN 0 ELSE r.val

\* ---------------------------------------------------------- parseTable

\* str.match(/open[\s\S]*close/g), the greedy expression: one match, from the
\* first opening lexeme to the last closing lexeme.
MatchGreedyFrom(s, open, close, p) ==
    LET o  == IndexFrom(s, {open}, p)
        cs == IF o = 0 THEN {} ELSE {j \in (o + 1)..Len(s) : s[j] = close}
    IN  IF cs = {} THEN <<>>
        ELSE <<SubSeq(s, o, CHOOSE c \in cs : \A d \in cs : d <= c)>>

\* str.match(/open[\s\S]*?close/g): the non-overlapping shortest matches, left
\* to right, each from an opening lexeme to the first closing lexeme after it.
RECURSIVE MatchAllFrom(_, _, _, _)
MatchAllFrom(s, open, close, p) ==
    LET o == IndexFrom(s, {open}, p)
        c == IF o = 0 THEN 0 ELSE IndexFrom(s, {close}, o + 1)
    IN  IF c = 0 THEN <<>>
        ELSE <<SubSeq(s, o, c)>> \o MatchAllFrom(s, open, close, c + 1)

MatchAll(s, open, close) == MatchAllFrom(s, open, close, 1)

\* The rows the loop of parseTable runs over: none without the marker or
\* without a table after it, else the row fragments of the first table after
\* the marker.
TableRows(doc) ==
    LET markerIndex     == IndexFrom(doc, {Marker}, 1)
        htmlAfterMarker == SubSeq(doc, markerIndex, Len(doc))
        tableMatch      == MatchAll(htmlAfterMarker, "<table>", "</table>")
    IN  IF markerIndex = 0 THEN <<>>
        ELSE IF tableMatch = <<>> THEN <<>>
        ELSE MatchAll(tableMatch[1], "<tr>", "</tr>")

\* row.includes('<thead')
HasTheadOnly(row) == \E j \in 1..Len(row) : row[j] = "<thead>"

\* row.includes('<th')
HasHeaderCell(row) == \E j \in 1..Len(row) : row[j] = "<th>"

\* The cells of a row: the content of each <td>...</td>, cleaned up.
RowCells(row) ==
    LET m == MatchAll(row, "<td>", "</td>")
    IN  [k \in 1..Len(m) |-> NormalizeCell(SubSeq(m[k], 2, Len(m[k]) - 1))]

\* cells[i], with the source's indices (from 0).
Cell(cs, i) == cs[i + 1]

\* Whether a cell holds a league position.
IsPosition(c) ==
    LET val == ParseInt(c) IN ~val.nan /\ val.val > 0 /\ val.val <= 20

\* The position search loop, from index i: the first of the first three cells
\* that holds a position, -1 if none.
RECURSIVE PositionIndexFrom(_, _)
PositionIndexFrom(cs, i) ==
    IF ~(i < (IF Len(cs) < 3 THEN Len(cs) ELSE 3)) THEN -1
    ELSE IF IsPosition(Cell(cs, i)) THEN i
    ELSE PositionIndexFrom(cs, i + 1)

\* The search without its break: the last of the first three cells that
\* holds a position.
FindPositionIndexNoBreak(cs) ==
    LET S == {i \in 0..2 : i < Len(cs) /\ IsPosition(Cell(cs, i))}
    IN  IF S = {} THEN -1 ELSE CHOOSE i \in S : \A j \in S : j <= i

FindPositionIndex(cs) == PositionIndexFrom(cs, 0)

\* The record of a row read at fixed indices: the position in cells[0], the
\* name in cells[1], the stats from cells[2].
TeamOfFixed(cs, p) ==
    [name         |-> Cell(cs, 1),
     position     |-> ParseInt(Cell(cs, p)).val,
     played       |-> ParseIntOr0(Cell(cs, 2)),
     wins         |-> ParseIntOr0(Cell(cs, 3)),
     otWins       |-> ParseIntOr0(Cell(cs, 4)),
     otLosses     |-> ParseIntOr0(Cell(cs, 5)),
     losses       |-> ParseIntOr0(Cell(cs, 6)),
     goalsFor     |-> ParseIntOr0(Cell(cs, 7)),
     goalsAgainst |-> ParseIntOr0(Cell(cs, 8)),
     points       |-> ParseIntOr0(Cell(cs, 9))]

\* The record pushed for a row whose position is at index p.
TeamOf(cs, p) ==
    LET nameIndex == p + 1
        dataStart == p + 2
    IN  [name         |-> Cell(cs, nameIndex),
         position     |-> ParseInt(Cell(cs, p)).val,
         played       |-> ParseIntOr0(Cell(cs, dataStart)),
         wins         |-> ParseIntOr0(Cell(cs, dataStart + 1)),
         otWins       |-> ParseIntOr0(Cell(cs, dataStart + 2)),
         otLosses     |-> ParseIntOr0(Cell(cs, dataStart + 3)),
         losses       |-> ParseIntOr0(Cell(cs, dataStart + 4)),
         goalsFor     |-> ParseIntOr0(Cell(cs, dataStart + 5)),
         goalsAgainst |-> ParseIntOr0(Cell(cs, dataStart + 6)),
         points       |-> ParseIntOr0(Cell(cs, dataStart + 7))]

\* Whether the row with these cells and this position index is pushed.
Pushes(cs, p) == p # -1 /\ Len(cs) >= (p + 2) + 8

\* teams.push(...), and a push that drops a record whose name teams has.
PushUnlessNamed(ts, new) ==
    IF new # <<>> /\ \E k \in 1..Len(ts) : ts[k].name = new[1].name
    THEN ts ELSE ts \o new

\* teams.unshift(...)
PushFront(ts, new) == new \o ts

Push(ts, new) == ts \o new

\* One iteration of the loop over the rows: what it appends to teams.
RowTeams(row) ==
    IF HasHeaderCell(row) THEN <<>>
    ELSE LET cs == RowCells(row)
             p  == IF Len(cs) = 0 THEN -1 ELSE FindPositionIndex(cs)
         IN  IF Pushes(cs, p) THEN <<TeamOf(cs, p)>> ELSE <<>>

\* The loop over the rows, on one table fragment: the records of its rows,
\* in the order of the rows.
RECURSIVE TeamsOfRows(_)
TeamsOfRows(rs) ==
    IF rs = <<>> THEN <<>> ELSE Push(TeamsOfRows(SubSeq(rs, 1, Len(rs) - 1)),
                                     RowTeams(rs[Len(rs)]))

ParseFragment(table) == TeamsOfRows(MatchAll(table, "<tr>", "</tr>"))

\* ----------------------------------------------------- selectBestTable

\* toLowerCase: the capital letters and what they turn into.
UpperCase ==
    <<"A", "B", "C", "D", "E", "F", "G", "H", "I", "J", "K", "L", "M",
      "N", "O", "P", "Q", "R", "S", "T", "U", "V", "W", "X", "Y", "Z">>

LowerCase ==
    <<"a", "b", "c", "d", "e", "f", "g", "h", "i", "j", "k", "l", "m",
      "n", "o", "p", "q", "r", "s", "t", "u", "v", "w", "x", "y", "z">>

LowerChar(c) ==
    IF \E i \in 1..Len(UpperCase) : UpperCase[i] = c
    THEN LowerCase[CHOOSE i \in 1..Len(UpperCase) : UpperCase[i] = c]
    ELSE c

ToLowerCase(s) == [j \in 1..Len(s) |-> LowerChar(s[j])]

\* A name as it is compared: lower-cased and trimmed.
NameKey(n) == Trim([j \in 1..Len(n) |-> LowerChar(n[j])])

\* The score that counts every record, matched or not.
ScoreAll(recs, refs) == Len(recs)

\* The score of a record set: how many of its records have a name of refs.
Score(recs, refs) ==
    Cardinality({j \in 1..Len(recs) :
                    NameKey(recs[j].name) \in {NameKey(r) : r \in refs}})

\* Taking the later candidate on a tie.
IsBetterOrEqual(score, b) == score >= b.score

\* Whether a candidate's score beats the best so far.
IsBetter(score, b) == score > b.score

NoBest == [records |-> <<>>, score |-> 0, index |-> 0]
NotFound == [found |-> FALSE, records |-> <<>>, score |-> 0, index |-> 0]

\* The best so far after candidate number k, with records recs, is looked at.
Consider(b, recs, k, refs) ==
    IF Len(recs) = 0 THEN b
    ELSE IF IsBetter(Score(recs, refs), b)
         THEN [records |-> recs, score |-> Score(recs, refs), index |-> k]
         ELSE b

\* What is returned for the best candidate of the scan.
Outcome(b) ==
    IF b.score = 0 \/ b.records = <<>> THEN NotFound
    ELSE [found |-> TRUE, records |-> b.records, score |-> b.score, index |-> b.index]

\* -------------------------------------------------------------- inputs

\* Rows per table in the documents with several rows.
MaxRows == 3

\* <td>raw</td> for each raw cell content, between <tr> and </tr>.
RECURSIVE TdAll(_)
TdAll(raws) ==
    IF raws = <<>> THEN <<>>
    ELSE <<"<td>">> \o Head(raws) \o <<"</td>">> \o TdAll(Tail(raws))

RowOf(raws) == <<"<tr>">> \o TdAll(raws) \o <<"</tr>">>

\* A row opening with a header cell.
HeaderRowOf(raws) == <<"<tr>", "<th>", "P", "</th>">> \o TdAll(raws) \o <<"</tr>">>

RECURSIVE Flatten(_)
Flatten(ss) == IF ss = <<>> THEN <<>> ELSE Head(ss) \o Flatten(Tail(ss))

TableOf(rs) == <<"<table>">> \o Flatten(rs) \o <<"</table>">>

\* The stat block of the spec's example row: 10 7 1 0 2 40 20 22.
BaseStats ==
    << <<"1", "0">>, <<"7">>, <<"1">>, <<"0">>, <<"2">>,
       <<"4", "0">>, <<"2", "0">>, <<"2", "2">> >>

\* Cell contents that are not plain counts.
OddCells ==
    { <<"3", "-", "1">>, <<"T", "B", "C">>, <<"1", "4", "/", "2">>,
      <<"-", "5">>, <<>>, <<"x">>, <<"7", "K">>, <<"0", "x", "1", "F">> }

\* Cells that come before the name cell.
Leads ==
    { << <<"3">> >>,
      << <<>>, <<"3">> >>,
      << <<>>, <<>>, <<"3">> >>,
      << <<>>, <<>>, <<>>, <<"3">> >>,
      << <<"0">> >>, << <<"2", "1">> >>, << <<"2", "0">> >>, << <<"1">> >>,
      << <<"3">>, <<"4">> >>,
      << <<"2", "1">>, <<"5">> >>,
      << <<"x">>, <<"0">>, <<"7">> >>,
      << <<"7", "K">> >>, << <<"-", "3">> >>, << <<"+", "3">> >>,
      << <<"0", "x", "5">> >>,
      << <<" ", "3", " ">> >>,
      << <<"<", "b", ">", "3", "<", "/", "b", ">">> >>,
      << <<"&", "n", "b", "s", "p", ";">>, <<"3">> >>,
      << <<"&", "n", "b", "s", "p", ";", "3">> >> }

Names ==
    { <<"F">>, <<"K">>, <<"f">>, <<>>, <<" ">>,
      <<"&", "n", "b", "s", "p", ";">>,
      <<"<", "b", ">", "<", "/", "b", ">">>,
      <<"<", "b", ">", "F", "<", "/", "b", ">">>,
      <<"F", "&", "a", "m", "p", ";", "K">>,
      <<"F", " ", "K">>, <<"9">> }

\* The base stat block with one cell replaced, cut short, or with a cell more.
StatBlocks ==
    {BaseStats}
      \cup {[BaseStats EXCEPT ![j] = c] : j \in 1..8, c \in OddCells}
      \cup {SubSeq(BaseStats, 1, n) : n \in {0, 7}}
      \cup {BaseStats \o << <<"9">> >>}

\* Raw cell lists of single rows: one part varies, the others are plain.
RawRows ==
    {l \o << <<"F">> >> \o BaseStats : l \in Leads}
      \cup {<< <<"3">>, n >> \o BaseStats : n \in Names}
      \cup {<< <<"3">>, <<"F">> >> \o s : s \in StatBlocks}
      \cup {<< <<>>, <<"3">>, <<"F">> >> \o s : s \in StatBlocks}
      \cup {<< <<>>, <<"3">>, <<>> >> \o BaseStats, <<>>, << <<>> >>}

\* The rows of the documents with several rows.
PlainRows ==
    { RowOf(<< <<"3">>, <<"F">> >> \o BaseStats),
      RowOf(<< <<>>, <<"1">>, <<"K">> >> \o BaseStats),
      RowOf(<< <<"5">>, <<"F">> >> \o BaseStats),
      RowOf(<< <<"3">>, <<"K">> >> \o [BaseStats EXCEPT ![8] = <<"9">>]),
      HeaderRowOf(<< <<"2">>, <<"K">> >> \o BaseStats),
      RowOf(<< <<"0">>, <<"F">> >> \o BaseStats),
      <<"<tr>", "</tr>">> }

SeqsUpTo(S, n) == UNION {[1..k -> S] : k \in 0..n}

\* Documents: the heading, then one table.  Also documents without the
\* heading, with a table before it, with a second table after the first, and
\* with a table that is never closed.
Docs ==
    {<<Marker>> \o TableOf(<<RowOf(r)>>) : r \in RawRows}
      \cup {<<Marker>> \o TableOf(<<HeaderRowOf(r)>>) : r \in RawRows}
      \cup {<<Marker>> \o TableOf(rs) : rs \in SeqsUpTo(PlainRows, MaxRows)}
      \cup UNION {{ TableOf(<<r>>),
                    TableOf(<<r>>) \o <<Marker>>,
                    TableOf(<<r>>) \o <<Marker>> \o TableOf(<<q>>),
                    <<Marker>> \o TableOf(<<r>>) \o TableOf(<<q>>),
                    <<Marker, "<table>">> \o r,
                    <<Marker>> \o r } : r \in PlainRows, q \in PlainRows}

\* ------------------------------------------------------- state machine

VARIABLES
    html,           \* the document parseTable is given
    pc,             \* where the function that runs is, e.g. "start", "rows", "done"
    rows,           \* the row fragments of the table
    rowNo,          \* how many rows the loop has gone through
    cells,          \* the cells of the row gone through last
    positionIndex,  \* its position index, -1 if it has none
    teams,          \* the records pushed so far
    origin,         \* for each record of teams, the number of its row
    candidates,     \* the table fragments selectBestTable is given
    referenceNames, \* the names it is given
    tableNo,        \* how many candidates it has gone through
    best,           \* the best candidate so far: records, score, index
    result,         \* what it returns
    document,       \* the document the table locator is given
    tables,         \* the fragments extractAllTables returns
    tableMatch,     \* parseTable's tableMatch: <<>> for null, else <<fragment>>
    raw,            \* the text between the tags of a cell
    content,        \* the same text after the normalisation
    configured,     \* whether the API token and the collection id are set
    schema,         \* the collection schema the store answered with
    fieldMap,       \* buildFieldMap's result: attribute -> slug
    existingItems,  \* the items the store listed
    existingMap,    \* name -> id of the listed items
    teamNo,         \* how many teams the loop of sync has written
    created,        \* sync's counter of successful creates
    updated,        \* sync's counter of successful updates
    requests,       \* every request issued so far, with its response status
    exitCode        \* -1 while running, 0 after the normal end, else process.exit's code

parseVars == <<html, rows, rowNo, cells, positionIndex, teams, origin>>
selectVars == <<candidates, referenceNames, tableNo, best, result>>
locateVars == <<document, tables, tableMatch>>
normVars == <<raw, content>>
syncVars == <<configured, schema, fieldMap, existingItems, existingMap, teamNo,
              created, updated, requests, exitCode>>
moreVars == <<locateVars, normVars, syncVars>>
vars == <<pc, parseVars, selectVars, moreVars>>

\* The variables of a function that is not running.
ParseIdle ==
    /\ html = <<>>
    /\ rows = <<>>
    /\ rowNo = 0
    /\ cells = <<>>
    /\ positionIndex = -1
    /\ teams = <<>>
    /\ origin = <<>>

LocateIdle == document = <<>> /\ tables = <<>> /\ tableMatch = <<>>

NormalizeIdle == raw = <<>> /\ content = <<>>

SyncIdle ==
    /\ configured = TRUE
    /\ schema = <<>>
    /\ fieldMap = <<>>
    /\ existingItems = <<>>
    /\ existingMap = <<>>
    /\ teamNo = 0
    /\ created = 0
    /\ updated = 0
    /\ requests = <<>>
    /\ exitCode = -1

Init ==
    /\ html \in Docs
    /\ pc = "start"
    /\ rows = <<>>
    /\ rowNo = 0
    /\ cells = <<>>
    /\ positionIndex = -1
    /\ teams = <<>>
    /\ origin = <<>>
    /\ candidates = <<>>
    /\ referenceNames = {}
    /\ tableNo = 0
    /\ best = NoBest
    /\ result = NotFound
    /\ LocateIdle /\ NormalizeIdle /\ SyncIdle

\* parseTable up to its loop: the marker, the table after it, its rows.
FindRows ==
    /\ pc = "start"
    /\ rows' = TableRows(html)
    /\ pc' = "rows"
    /\ UNCHANGED <<html, rowNo, cells, positionIndex, teams, origin, selectVars, moreVars>>

\* One iteration of the loop over the rows.
ParseRow ==
    /\ pc = "rows"
    /\ rowNo < Len(rows)
    /\ LET row == rows[rowNo + 1]
           cs  == IF HasHeaderCell(row) THEN <<>> ELSE RowCells(row)
           p   == IF Len(cs) = 0 THEN -1 ELSE FindPositionIndex(cs)
           new == RowTeams(row)
       IN  /\ cells' = cs
           /\ positionIndex' = p
           /\ teams' = Push(teams, new)
           /\ origin' = origin \o [k \in 1..Len(new) |-> rowNo + 1]
    /\ rowNo' = rowNo + 1
    /\ UNCHANGED <<html, pc, rows, selectVars, moreVars>>

\* return teams
Return ==
    /\ pc = "rows"
    /\ rowNo = Len(rows)
    /\ pc' = "done"
    /\ UNCHANGED <<parseVars, selectVars, moreVars>>

Next == FindRows \/ ParseRow \/ Return

Spec == Init /\ [][Next]_vars

\* ------------------------------------ state machine of selectBestTable

\* Candidates per document.
MaxTables == 3

StandingsRow(pos, name) == RowOf(<<pos, name>> \o BaseStats)

\* Candidate tables: without rows, without usable rows, and with one or two
\* standings rows.
TablePool ==
    { TableOf(<<>>),
      TableOf(<<HeaderRowOf(<< <<"2">>, <<"K">> >> \o BaseStats),
                StandingsRow(<<"0">>, <<"F">>)>>),
      TableOf(<<StandingsRow(<<"3">>, <<"F">>)>>),
      TableOf(<<StandingsRow(<<"3">>, <<"F">>), StandingsRow(<<"1">>, <<"K">>)>>),
      TableOf(<<StandingsRow(<<"1">>, <<"K">>), StandingsRow(<<"3">>, <<"F">>)>>),
      TableOf(<<StandingsRow(<<"5">>, <<"f">>), StandingsRow(<<"3">>, <<"F">>)>>) }

ReferenceSets ==
    { {}, {<<" ", "f", " ">>}, {<<"K">>, <<"F">>}, {<<"k">>, <<"B">>} }

InitSelect ==
    /\ candidates \in SeqsUpTo(TablePool, MaxTables)
    /\ referenceNames \in ReferenceSets
    /\ tableNo = 0
    /\ best = NoBest
    /\ result = NotFound
    /\ pc = "scan"
    /\ html = <<>>
    /\ rows = <<>>
    /\ rowNo = 0
    /\ cells = <<>>
    /\ positionIndex = -1
    /\ teams = <<>>
    /\ origin = <<>>
    /\ LocateIdle /\ NormalizeIdle /\ SyncIdle

\* One iteration of the loop over the candidates.
ScanCandidate ==
    /\ pc = "scan"
    /\ tableNo < Len(candidates)
    /\ best' = Consider(best, ParseFragment(candidates[tableNo + 1]),
                        tableNo + 1, referenceNames)
    /\ tableNo' = tableNo + 1
    /\ UNCHANGED <<pc, candidates, referenceNames, result, parseVars, moreVars>>

\* The return of selectBestTable.
ReturnBest ==
    /\ pc = "scan"
    /\ tableNo = Len(candidates)
    /\ result' = Outcome(best)
    /\ pc' = "returned"
    /\ UNCHANGED <<candidates, referenceNames, tableNo, best, parseVars, moreVars>>

NextSelect == ScanCandidate \/ ReturnBest

SpecSelect == InitSelect /\ [][NextSelect]_vars

\* -------------------------------------- state machine of the table locator

SelectIdle ==
    /\ candidates = <<>>
    /\ referenceNames = {}
    /\ tableNo = 0
    /\ best = NoBest
    /\ result = NotFound

\* extractAllTables(document): every match of /<table[\s\S]*?<\/table>/gi.
extractAllTables(doc) == MatchAll(doc, "<table>", "</table>")

\* parseTable's tableMatch: the first such match after the marker; <<>> for
\* null, and when parseTable returns before it for want of the marker.
TableMatch(doc) ==
    LET markerIndex     == IndexFrom(doc, {Marker}, 1)
        htmlAfterMarker == SubSeq(doc, markerIndex, Len(doc))
        all             == MatchAll(htmlAfterMarker, "<table>", "</table>")
    IN  IF markerIndex = 0 \/ all = <<>> THEN <<>> ELSE <<all[1]>>

\* Pieces per document.
MaxPieces == 5

\* What documents are put together from: the tags of a table, one row, the
\* heading, and text.
DocPieces ==
    { <<"<table>">>, <<"</table>">>, <<Marker>>, <<"F">>,
      <<"<tr>", "<td>", "3", "</td>", "</tr>">> }

\* Documents with no table, one, several, with tables inside tables, with
\* tables never closed and with closing tags that close nothing.
LocateDocs == {Flatten(ps) : ps \in SeqsUpTo(DocPieces, MaxPieces)}

InitLocate ==
    /\ document \in LocateDocs
    /\ tables = <<>>
    /\ tableMatch = <<>>
    /\ pc = "locate"
    /\ ParseIdle /\ SelectIdle /\ NormalizeIdle /\ SyncIdle

\* The table locator.
Locate ==
    /\ pc = "locate"
    /\ tables' = extractAllTables(document)
    /\ pc' = "extracted"
    /\ UNCHANGED <<document, tableMatch, parseVars, selectVars, normVars, syncVars>>

\* The table parseTable takes from the document.
MatchTable ==
    /\ pc = "locate"
    /\ tableMatch' = TableMatch(document)
    /\ pc' = "matched"
    /\ UNCHANGED <<document, tables, parseVars, selectVars, normVars, syncVars>>

NextLocate == Locate \/ MatchTable

SpecLocate == InitLocate /\ [][NextLocate]_vars

\* ------------------------------------ state machine of the cell clean-up

\* Pieces per cell text.
MaxCellPieces == 4

\* What cell texts are put together from: white space, a letter, the two
\* characters of a tag, the two entities the clean-up knows, an ampersand,
\* the tail of an entity, and an entity it does not know.
CellPieces ==
    { <<" ">>, <<"F">>, <<"<">>, <<">">>, <<"&">>,
      <<"&", "n", "b", "s", "p", ";">>,
      <<"&", "a", "m", "p", ";">>,
      <<"n", "b", "s", "p", ";">>,
      <<"&", "#", "3", "9", ";">> }

RawCellTexts == {Flatten(ps) : ps \in SeqsUpTo(CellPieces, MaxCellPieces)}

InitNormalize ==
    /\ raw \in RawCellTexts
    /\ content = <<>>
    /\ pc = "normalize"
    /\ ParseIdle /\ SelectIdle /\ LocateIdle /\ SyncIdle

\* The four calls on match[1], and the push of the result.
Normalize ==
    /\ pc = "normalize"
    /\ content' = NormalizeCell(raw)
    /\ pc' = "normalized"
    /\ UNCHANGED <<raw, parseVars, selectVars, locateVars, syncVars>>

NextNormalize == Normalize

SpecNormalize == InitNormalize /\ [][NextNormalize]_vars

\* ------------------------------------------------------- buildFieldMap

\* The attributes buildFieldMap tests for, in the order of its tests.
Attributes ==
    <<"position", "played", "wins", "otWins", "otLosses", "losses",
      "goalsFor", "goalsAgainst", "points">>

\* The text each test compares lowerName with.
Literal(k) ==
    CASE k = "position" -> <<"p", "o", "s", "i", "t", "i", "o", "n">>
      [] k = "played" -> <<"p", "l", "a", "y", "e", "d">>
      [] k = "wins" -> <<"w", "i", "n", "s">>
      [] k = "otWins" -> <<"o", "t", "w", "i", "n", "s">>
      [] k = "otLosses" -> <<"o", "t", "l", "o", "s", "s", "e", "s">>
      [] k = "losses" -> <<"l", "o", "s", "s", "e", "s">>
      [] k = "goalsFor" -> <<"g", "o", "a", "l", "s", "f", "o", "r">>
      [] k = "goalsAgainst" -> <<"g", "o", "a", "l", "s", "a", "g", "a", "i", "n", "s", "t">>
      [] k = "points" -> <<"p", "o", "i", "n", "t", "s">>

\* s.replace(/\s+/g, '')
RemoveWhiteSpace(s) == SelectSeq(s, LAMBDA c : c \notin WhiteSpace)

\* field.displayName || field.name || slug; an empty text stands for a
\* property that is missing or empty, both of which || passes over.
DisplayName(field) ==
    IF field.displayName # <<>> THEN field.displayName
    ELSE IF field.name # <<>> THEN field.name
    ELSE field.slug

\* The name as compared, without the removal of white space.
LowerNameKeepSpaces(field) == ToLowerCase(DisplayName(field))

\* lowerName
LowerName(field) == RemoveWhiteSpace(ToLowerCase(DisplayName(field)))

\* fieldMap.k = slug
SetField(fm, k, slug) ==
    [x \in DOMAIN fm \cup {k} |-> IF x = k THEN slug ELSE fm[x]]

\* The nine tests of one field: every attribute whose text lowerName equals
\* gets the slug of the field.
Tests(fm, field) ==
    LET hit == {Attributes[i] : i \in {j \in 1..Len(Attributes) :
                                          LowerName(field) = Literal(Attributes[j])}}
    IN  [x \in DOMAIN fm \cup hit |-> IF x \in hit THEN field.slug ELSE fm[x]]

\* The loop over the fields from the n-th on.
RECURSIVE FieldsFrom(_, _, _)
FieldsFrom(fm, fields, n) ==
    IF n > Len(fields) THEN fm
    ELSE FieldsFrom(Tests(fm, fields[n]), fields, n + 1)

\* buildFieldMap(schema); a schema is given by its fields, none when the
\* answer of the store has no fields property.
buildFieldMap(fields) == FieldsFrom(<<>>, fields, 1)

\* Fields per schema.
MaxFields == 2

\* A schema with a field for every attribute.
FullSchema ==
    << [displayName |-> <<"P", "o", "s", "i", "t", "i", "o", "n">>, name |-> <<>>, slug |-> <<"p", "o", "s", "i", "t", "i", "o", "n">>],
       [displayName |-> <<"P", "l", "a", "y", "e", "d">>, name |-> <<>>, slug |-> <<"p", "l", "a", "y", "e", "d">>],
       [displayName |-> <<"W", "i", "n", "s">>, name |-> <<>>, slug |-> <<"w", "i", "n", "s">>],
       [displayName |-> <<"O", "T", " ", "W", "i", "n", "s">>, name |-> <<>>, slug |-> <<"o", "t", "-", "w", "i", "n", "s">>],
       [displayName |-> <<"O", "T", " ", "L", "o", "s", "s", "e", "s">>, name |-> <<>>, slug |-> <<"o", "t", "-", "l", "o", "s", "s", "e", "s">>],
       [displayName |-> <<"L", "o", "s", "s", "e", "s">>, name |-> <<>>, slug |-> <<"l", "o", "s", "s", "e", "s">>],
       [displayName |-> <<"G", "o", "a", "l", "s", " ", "F", "o", "r">>, name |-> <<>>, slug |-> <<"g", "o", "a", "l", "s", "-", "f", "o", "r">>],
       [displayName |-> <<"G", "o", "a", "l", "s", " ", "A", "g", "a", "i", "n", "s", "t">>, name |-> <<>>, slug |-> <<"g", "o", "a", "l", "s", "-", "a", "g", "a", "i", "n", "s", "t">>],
       [displayName |-> <<"P", "o", "i", "n", "t", "s">>, name |-> <<>>, slug |-> <<"p", "o", "i", "n", "t", "s">>] >>

\* Fields that match no attribute, that match one under another spelling,
\* that have no displayName, and that match an attribute a second time.
OddFields ==
    { [displayName |-> <<"N", "a", "m", "e">>, name |-> <<>>, slug |-> <<"n", "a", "m", "e">>],
      [displayName |-> <<"P", "t", "s">>, name |-> <<>>, slug |-> <<"p", "o", "i", "n", "t", "s">>],
      [displayName |-> <<>>, name |-> <<>>, slug |-> <<"p", "o", "i", "n", "t", "s">>],
      [displayName |-> <<>>, name |-> <<"W", "i", "n", "s">>, slug |-> <<"w">>],
      [displayName |-> <<"P", "O", "I", "N", "T", "S">>, name |-> <<>>, slug |-> <<"p", "t", "s">>],
      [displayName |-> <<" ", "g", "o", "a", "l", "s", "\n", "F", "O", "R", " ">>, name |-> <<>>, slug |-> <<"g", "f">>],
      [displayName |-> <<"o", "t", "w", "i", "n", "s">>, name |-> <<>>, slug |-> <<"o", "t", "w">>],
      [displayName |-> <<>>, name |-> <<>>, slug |-> <<"s", "l", "u", "g">>] }

FieldPool == OddFields \cup {FullSchema[i] : i \in {3, 4, 9}}

Schemas == SeqsUpTo(FieldPool, MaxFields) \cup {FullSchema}

InitFieldMap ==
    /\ schema \in Schemas
    /\ pc = "fields"
    /\ configured = TRUE
    /\ fieldMap = <<>>
    /\ existingItems = <<>>
    /\ existingMap = <<>>
    /\ teamNo = 0
    /\ created = 0
    /\ updated = 0
    /\ requests = <<>>
    /\ exitCode = -1
    /\ ParseIdle /\ SelectIdle /\ LocateIdle /\ NormalizeIdle

\* The call of buildFieldMap.
MapFields ==
    /\ pc = "fields"
    /\ fieldMap' = buildFieldMap(schema)
    /\ pc' = "mapped"
    /\ UNCHANGED <<configured, schema, existingItems, existingMap, teamNo,
                   created, updated, requests, exitCode,
                   parseVars, selectVars, locateVars, normVars>>

NextFieldMap == MapFields

SpecFieldMap == InitFieldMap /\ [][NextFieldMap]_vars

\* ------------------------------------------------------------------ sync

\* The keys createItem always sets.
NameSlug == <<"n", "a", "m", "e">>
SlugSlug == <<"s", "l", "u", "g">>

SlugLetters == {LowerCase[i] : i \in 1..Len(LowerCase)} \cup DecDigits

\* s.replace(/[^a-z0-9]+/g, '-'), from position p on.
RECURSIVE DashesFrom(_, _)
DashesFrom(s, p) ==
    IF p > Len(s) THEN <<>>
    ELSE IF s[p] \in SlugLetters THEN <<s[p]>> \o DashesFrom(s, p + 1)
    ELSE LET n == IndexFrom(s, SlugLetters, p)
         IN  <<"-">> \o (IF n = 0 THEN <<>> ELSE DashesFrom(s, n))

\* s.replace(/-+$/, '')
DropEndDashes(s) ==
    LET S == {j \in 1..Len(s) : s[j] # "-"}
    IN  IF S = {} THEN <<>>
        ELSE SubSeq(s, 1, CHOOSE x \in S : \A y \in S : y <= x)

\* team.name.toLowerCase().replace(/[^a-z0-9]+/g, '-').replace(/-+$/, '')
SlugOf(name) == DropEndDashes(DashesFrom(ToLowerCase(name), 1))

\* The nine assignments that write every attribute under its own name,
\* mapped or not.
StatFieldsUnmapped(fd, fm, team, i) ==
    [x \in DOMAIN fd \cup {Literal(Attributes[k]) : k \in i..Len(Attributes)} |->
        IF \E k \in i..Len(Attributes) : x = Literal(Attributes[k])
        THEN team[Attributes[CHOOSE k \in i..Len(Attributes) :
                                 x = Literal(Attributes[k])]]
        ELSE fd[x]]

\* The nine lines `if (fieldMap.k) fieldData[fieldMap.k] = team.k`, from the
\* i-th on.
RECURSIVE StatFields(_, _, _, _)
StatFields(fd, fm, team, i) ==
    IF i > Len(Attributes) THEN fd
    ELSE LET k == Attributes[i]
         IN  StatFields(IF k \in DOMAIN fm /\ fm[k] # <<>>
                        THEN SetField(fd, fm[k], team[k])
                        ELSE fd,
                        fm, team, i + 1)

\* The fieldData of createItem and of updateItem.
CreateFieldData(team, fm) ==
    StatFields(SetField(SetField(<<>>, NameSlug, team.name),
                        SlugSlug, SlugOf(team.name)),
               fm, team, 1)

UpdateFieldData(team, fm) == StatFields(<<>>, fm, team, 1)

\* A request as sync's log holds it: what was sent, whether the answer has
\* come (state "pending", "resolved" or "rejected"), and the status of the
\* answer.  recordNo tells which record a write is for; it is not sent.
Request(kind, itemId, fieldData, itemIds, recordNo) ==
    [kind |-> kind, itemId |-> itemId, fieldData |-> fieldData,
     itemIds |-> itemIds, recordNo |-> recordNo,
     state |-> "pending", status |-> 0]

Get(kind) == Request(kind, "", <<>>, <<>>, 0)

\* An answer that leaves the request as it was.
ResolveLost(reqs, st) == reqs

\* resolve({status, data}) for the request awaited, the last one issued.
Resolve(reqs, st) ==
    [reqs EXCEPT ![Len(reqs)] = [@ EXCEPT !.state = "resolved", !.status = st]]

\* reject(error) for the request awaited.
Reject(reqs) == [reqs EXCEPT ![Len(reqs)] = [@ EXCEPT !.state = "rejected"]]

\* The forEach that fills existingMap, from the n-th item on; an item without
\* fieldData or without a name in it has the name <<>>.
RECURSIVE MapItemsFrom(_, _, _)
MapItemsFrom(m, items, n) ==
    IF n > Len(items) THEN m
    ELSE MapItemsFrom(IF items[n].name # <<>>
                      THEN SetField(m, items[n].name, items[n].id)
                      ELSE m,
                      items, n + 1)

\* The look-up that takes names for equal when they differ in case only.
LookupIgnoringCase(m, name) ==
    IF \E n \in DOMAIN m : ToLowerCase(n) = ToLowerCase(name)
    THEN m[CHOOSE n \in DOMAIN m : ToLowerCase(n) = ToLowerCase(name)]
    ELSE ""

\* existingMap.get(team.name); "" for undefined.
Lookup(m, name) == IF name \in DOMAIN m THEN m[name] ELSE ""

\* The request one iteration of the loop issues for record k.
WriteRequest(k, ts, m, fm) ==
    LET team       == ts[k]
        existingId == Lookup(m, team.name)
    IN  IF existingId # ""
        THEN Request("update", existingId, UpdateFieldData(team, fm), <<>>, k)
        ELSE Request("create", "", CreateFieldData(team, fm), <<>>, k)

\* The test that takes 300 for a success too.
Is2xxOr300(status) == status >= 200 /\ status <= 300

\* result.status >= 200 && result.status < 300
Is2xx(status) == status >= 200 /\ status < 300

\* The test that never finds the extraction empty.
NoTeamsNever(ts) == Len(ts) < 0

\* teams.length === 0
NoTeams(ts) == Len(ts) = 0

\* parseTable(html)
ParseTable(doc) == TeamsOfRows(TableRows(doc))

\* Records per document of a run.
MaxTeams == 2

SyncRows == {StandingsRow(<<"3">>, <<"F">>), StandingsRow(<<"1">>, <<"K">>)}

\* The pages a run may fetch: tables of up to MaxTeams standings rows, a
\* table with a header row only, and a page without the marker.
SyncDocs ==
    {<<Marker>> \o TableOf(rs) : rs \in SeqsUpTo(SyncRows, MaxTeams)}
      \cup { <<Marker>> \o TableOf(<<HeaderRowOf(<< <<"2">>, <<"K">> >> \o BaseStats)>>),
             TableOf(<<StandingsRow(<<"3">>, <<"F">>)>>) }

\* The schemas the store may answer with: every attribute, none (an answer
\* without fields), and two fields of which one has no displayName.
SyncSchemas ==
    { FullSchema, <<>>,
      << [displayName |-> <<>>, name |-> <<"W", "i", "n", "s">>, slug |-> <<"w">>],
         FullSchema[9] >> }

\* The item lists the store may answer with: none, one item for each of two
\* names, two items of one name and one without a name, and an item whose
\* name differs in case.
ItemLists ==
    { <<>>,
      << [id |-> "i1", name |-> <<"F">>], [id |-> "i2", name |-> <<"K">>] >>,
      << [id |-> "i1", name |-> <<"F">>], [id |-> "i2", name |-> <<"F">>],
         [id |-> "i3", name |-> <<>>] >>,
      << [id |-> "i1", name |-> <<"f">>] >> }

\* The statuses the store may answer a write or a publish with.
Statuses == {200, 299, 300, 404}

InitSync ==
    /\ pc = "sync"
    /\ configured \in BOOLEAN
    /\ schema = <<>>
    /\ fieldMap = <<>>
    /\ existingItems = <<>>
    /\ existingMap = <<>>
    /\ teamNo = 0
    /\ created = 0
    /\ updated = 0
    /\ requests = <<>>
    /\ exitCode = -1
    /\ ParseIdle /\ SelectIdle /\ LocateIdle /\ NormalizeIdle

\* sync up to its first await: the test of the configuration, then
\* getCollectionSchema's request.
Start ==
    /\ pc = "sync"
    /\ IF ~configured
       THEN /\ exitCode' = 1
            /\ pc' = "exit"
            /\ UNCHANGED requests
       ELSE /\ requests' = Append(requests, Get("schema"))
            /\ pc' = "awaitSchema"
            /\ UNCHANGED exitCode
    /\ UNCHANGED <<configured, schema, fieldMap, existingItems, existingMap,
                   teamNo, created, updated,
                   parseVars, selectVars, locateVars, normVars>>

\* The schema arrives: buildFieldMap, then fetchHTML's request.
SchemaResponse ==
    /\ pc = "awaitSchema"
    /\ \E fields \in SyncSchemas :
          /\ schema' = fields
          /\ fieldMap' = buildFieldMap(fields)
    /\ requests' = Append(Resolve(requests, 200), Get("html"))
    /\ pc' = "awaitHtml"
    /\ UNCHANGED <<configured, existingItems, existingMap, teamNo, created,
                   updated, exitCode,
                   parseVars, selectVars, locateVars, normVars>>

\* The page arrives: parseTable, the exit when there is no team, else
\* getExistingItems' request.
HtmlResponse ==
    /\ pc = "awaitHtml"
    /\ \E doc \in SyncDocs :
          /\ html' = doc
          /\ teams' = ParseTable(doc)
    /\ IF NoTeams(teams')
       THEN /\ requests' = Resolve(requests, 200)
            /\ exitCode' = 1
            /\ pc' = "exit"
       ELSE /\ requests' = Append(Resolve(requests, 200), Get("items"))
            /\ pc' = "awaitItems"
            /\ UNCHANGED exitCode
    /\ UNCHANGED <<rows, rowNo, cells, positionIndex, origin,
                   configured, schema, fieldMap, existingItems, existingMap,
                   teamNo, created, updated,
                   selectVars, locateVars, normVars>>

\* What sync does at the head of its loop after n iterations: the write for
\* the next team, or, after the last, publishItems up to its await.
NextCall(reqs, n, ts, m, fm) ==
    IF n < Len(ts)
    THEN [requests |-> Append(reqs, WriteRequest(n + 1, ts, m, fm)),
          pc |-> "awaitWrite"]
    ELSE [requests |-> Append(reqs, Get("items")), pc |-> "awaitPublishItems"]

\* The items arrive: existingMap, the counters, and the first write.
ItemsResponse ==
    /\ pc = "awaitItems"
    /\ \E items \in ItemLists :
          /\ existingItems' = items
          /\ existingMap' = MapItemsFrom(<<>>, items, 1)
    /\ created' = 0
    /\ updated' = 0
    /\ LET go == NextCall(Resolve(requests, 200), teamNo, teams, existingMap',
                          fieldMap)
       IN  requests' = go.requests /\ pc' = go.pc
    /\ UNCHANGED <<configured, schema, fieldMap, teamNo, exitCode,
                   parseVars, selectVars, locateVars, normVars>>

\* The answer to a write arrives: the counter, then the timer of 200 ms.
WriteResponse ==
    /\ pc = "awaitWrite"
    /\ \E status \in Statuses :
          /\ requests' = Resolve(requests, status)
          /\ IF requests[Len(requests)].kind = "update"
             THEN /\ updated' = IF Is2xx(status) THEN updated + 1 ELSE updated
                  /\ UNCHANGED created
             ELSE /\ created' = IF Is2xx(status) THEN created + 1 ELSE created
                  /\ UNCHANGED updated
    /\ teamNo' = teamNo + 1
    /\ pc' = "sleep"
    /\ UNCHANGED <<configured, schema, fieldMap, existingItems, existingMap,
                   exitCode, parseVars, selectVars, locateVars, normVars>>

\* The timer fires: the next iteration, or the call of publishItems.
Wake ==
    /\ pc = "sleep"
    /\ LET go == NextCall(requests, teamNo, teams, existingMap, fieldMap)
       IN  requests' = go.requests /\ pc' = go.pc
    /\ UNCHANGED <<configured, schema, fieldMap, existingItems, existingMap,
                   teamNo, created, updated, exitCode,
                   parseVars, selectVars, locateVars, normVars>>

\* publishItems gets the items: the return when there is none, else the
\* publish request with their ids.
PublishItemsResponse ==
    /\ pc = "awaitPublishItems"
    /\ \E items \in ItemLists :
          LET itemIds == [i \in 1..Len(items) |-> items[i].id]
          IN  IF Len(itemIds) = 0
              THEN /\ requests' = Resolve(requests, 200)
                   /\ exitCode' = 0
                   /\ pc' = "complete"
              ELSE /\ requests' = Append(Resolve(requests, 200),
                                         Request("publish", "", <<>>, itemIds, 0))
                   /\ pc' = "awaitPublish"
                   /\ UNCHANGED exitCode
    /\ UNCHANGED <<configured, schema, fieldMap, existingItems, existingMap,
                   teamNo, created, updated,
                   parseVars, selectVars, locateVars, normVars>>

\* The answer to the publish request arrives; sync logs it and ends.
PublishResponse ==
    /\ pc = "awaitPublish"
    /\ \E status \in Statuses : requests' = Resolve(requests, status)
    /\ exitCode' = 0
    /\ pc' = "complete"
    /\ UNCHANGED <<configured, schema, fieldMap, existingItems, existingMap,
                   teamNo, created, updated,
                   parseVars, selectVars, locateVars, normVars>>

\* The request awaited fails ('error'): the promise is rejected, the catch
\* of sync logs the error and exits.
RequestError ==
    /\ pc \in {"awaitSchema", "awaitHtml", "awaitItems", "awaitWrite",
               "awaitPublishItems", "awaitPublish"}
    /\ requests' = Reject(requests)
    /\ exitCode' = 1
    /\ pc' = "exit"
    /\ UNCHANGED <<configured, schema, fieldMap, existingItems, existingMap,
                   teamNo, created, updated,
                   parseVars, selectVars, locateVars, normVars>>

NextSync ==
    \/ Start
    \/ SchemaResponse
    \/ HtmlResponse
    \/ ItemsResponse
    \/ WriteResponse
    \/ Wake
    \/ PublishItemsResponse
    \/ PublishResponse
    \/ RequestError

SpecSync == InitSync /\ [][NextSync]_vars

\* -------------------------------------------------------------- claims

\* The row the loop went through last, and whether it pushed a record.
LastRow == rows[rowNo]
Emitted == origin # <<>> /\ origin[Len(origin)] = rowNo
LastTeam == teams[Len(teams)]

\* A cell that parses as an integer from 1 to 20.
IsLeaguePosition(c) == ~ParseInt(c).nan /\ ParseInt(c).val \in 1..20

\* The indices among 0..2, below the cell count, of cells holding 1..20.
PositionCandidates == {i \in 0..2 : i < Len(cells) /\ IsLeaguePosition(Cell(cells, i))}

\* C3: for every row, positionIndex is the smallest index in 0..2, below the
\* cell count, whose cell parses as an integer in 1..20, and a row with no
\* such cell among its first three emits no record.
C3_PositionIsFirstCandidate ==
    (rowNo >= 1 /\ ~HasHeaderCell(LastRow)) =>
        /\ PositionCandidates # {} => positionIndex = Min(PositionCandidates)
        /\ PositionCandidates = {} => positionIndex = -1 /\ ~Emitted

\* A row with two position-like cells among its first three, the first taken.
C3_Witness ==
    /\ rowNo >= 1
    /\ Emitted
    /\ Cardinality(PositionCandidates) = 2
    /\ positionIndex = Min(PositionCandidates)

\* The row without its first cell.
DropFirstCell(row) ==
    LET o == IndexFrom(row, {"<td>"}, 1)
        c == IndexFrom(row, {"</td>"}, o + 1)
    IN  SubSeq(row, 1, o - 1) \o SubSeq(row, c + 1, Len(row))

\* An emitted record has as name the cell at positionIndex+1 and as played ..
\* points the integer values of the cells at positionIndex+2 .. +9, in order.
FieldsFollowPosition ==
    (rowNo >= 1 /\ Emitted) =>
        LET t == LastTeam
            p == positionIndex
        IN  /\ t.name = Cell(cells, p + 1)
            /\ <<t.played, t.wins, t.otWins, t.otLosses, t.losses,
                 t.goalsFor, t.goalsAgainst, t.points>>
                 = [k \in 1..8 |-> ParseIntOr0(Cell(cells, p + 1 + k))]

\* The row gone through last has cells, the first of them blank.
BlankLeadingCell ==
    rowNo >= 1 /\ ~HasHeaderCell(LastRow) /\ Len(cells) >= 1 /\ Cell(cells, 0) = <<>>

\* C4, as claimed: the fields of an emitted record follow its position index,
\* and so a row with a blank leading cell and the same row without that cell
\* yield the identical record.
C4_BlankLeadingCellIrrelevant ==
    /\ FieldsFollowPosition
    /\ BlankLeadingCell => RowTeams(LastRow) = RowTeams(DropFirstCell(LastRow))

\* C4, amended: the fields of an emitted record follow its position index,
\* and so a row with a blank leading cell that has a position among its first
\* three cells and the same row without that cell yield the identical record.
C4_FieldsFollowPosition ==
    /\ FieldsFollowPosition
    /\ (BlankLeadingCell /\ positionIndex # -1)
          => RowTeams(LastRow) = RowTeams(DropFirstCell(LastRow))

\* A record emitted from a row with a blank leading cell.
C4_Witness ==
    /\ rowNo >= 1
    /\ Emitted
    /\ positionIndex = 1
    /\ Cell(cells, 0) = <<>>
    /\ LastTeam.name = <<"F">>
    /\ LastTeam.played = 10
    /\ LastTeam.points = 22

\* A plain count: one or more decimal digits and nothing else.
IsPlainCount(c) == Len(c) >= 1 /\ \A j \in 1..Len(c) : c[j] \in DecDigits

\* C5: a row emits a record only if each of its eight stat-column cells is
\* made of one or more decimal digits and nothing else.
C5_StatCellsArePlainCounts ==
    (rowNo >= 1 /\ Emitted) =>
        \A k \in 0..7 : IsPlainCount(Cell(cells, positionIndex + 2 + k))

\* C6: a row with fewer than positionIndex+10 cells emits no record, and a
\* row whose name cell is empty after normalization emits no record.
C6_ShortOrNamelessRowSkipped ==
    (rowNo >= 1 /\ positionIndex # -1) =>
        /\ Len(cells) < positionIndex + 10 => ~Emitted
        /\ (Len(cells) >= positionIndex + 2 /\ Cell(cells, positionIndex + 1) = <<>>)
              => ~Emitted

\* C7: every emitted record has a non-empty name, a position from 1 to 20
\* and eight stat fields that are non-negative integers.
C7_RecordsWellFormed ==
    \A k \in 1..Len(teams) :
        LET t == teams[k]
        IN  /\ t.name # <<>>
            /\ t.position \in 1..20
            /\ \A v \in {t.played, t.wins, t.otWins, t.otLosses, t.losses,
                         t.goalsFor, t.goalsAgainst, t.points} : v \in Nat

\* Whether a row fragment holds a header-cell marker, or holds no cell.
HoldsHeaderMarker(row) == "<th>" \in {row[j] : j \in 1..Len(row)}
HoldsNoCell(row) ==
    ~\E a \in 1..Len(row), b \in 1..Len(row) :
        a < b /\ row[a] = "<td>" /\ row[b] = "</td>"

\* The row without its header cell markers.
WithoutHeaderMarker(row) == SelectSeq(row, LAMBDA x : x # "<th>")

\* C8: no record comes from a row fragment that holds a header-cell marker,
\* whatever its data cells hold, and a row that yields no cell is skipped.
C8_HeaderAndEmptyRowsSkipped ==
    /\ \A k \in 1..Len(origin) : ~HoldsHeaderMarker(rows[origin[k]])
    /\ (rowNo >= 1 /\ (HoldsHeaderMarker(LastRow) \/ HoldsNoCell(LastRow)))
          => ~Emitted

\* A header row whose data cells would make a record goes by without one.
C8_Witness ==
    /\ rowNo >= 1
    /\ HoldsHeaderMarker(LastRow)
    /\ RowTeams(WithoutHeaderMarker(LastRow)) # <<>>
    /\ ~Emitted

\* C9: the records are in the document order of their rows: each row gives
\* at most one record, the records of earlier rows come first, and the result
\* is the row-by-row results put end to end.
C9_RecordsInRowOrder ==
    /\ Len(origin) = Len(teams)
    /\ \A a \in 1..Len(origin), b \in 1..Len(origin) : a < b => origin[a] < origin[b]
    /\ \A k \in 1..Len(teams) : RowTeams(rows[origin[k]]) = <<teams[k]>>
    /\ pc = "done" => teams = Flatten([k \in 1..Len(rows) |-> RowTeams(rows[k])])

\* Two different records from two rows with a skipped row between them.
C9_Witness ==
    /\ pc = "done"
    /\ Len(teams) = 2
    /\ teams[1] # teams[2]
    /\ origin = <<1, 3>>

\* C10: no deduplication: every row that is valid on its own has its own
\* record, also when an earlier row has the same name or the same position.
C10_NoDeduplication ==
    /\ Len(teams) = Cardinality({k \in 1..rowNo : RowTeams(rows[k]) # <<>>})
    /\ \A k \in 1..rowNo :
          RowTeams(rows[k]) # <<>> => \E a \in 1..Len(teams) : origin[a] = k

\* Three records, two with the same name and two with the same position.
C10_Witness ==
    /\ Len(teams) = 3
    /\ \E a \in 1..3, b \in 1..3 :
          a < b /\ teams[a].name = teams[b].name /\ teams[a] # teams[b]
    /\ \E a \in 1..3, b \in 1..3 :
          a < b /\ teams[a].position = teams[b].position /\ teams[a] # teams[b]

\* The score of candidate k: how many of its records have a name that,
\* lower-cased and trimmed, is a reference name lower-cased and trimmed.
ScoreOfCandidate(k) ==
    LET recs == ParseFragment(candidates[k])
    IN  Cardinality({j \in 1..Len(recs) :
                        \E r \in referenceNames : NameKey(recs[j].name) = NameKey(r)})

\* The scores of the candidates, in their order.
Scores == [k \in 1..Len(candidates) |-> ScoreOfCandidate(k)]

\* The greatest of the scores sc, 0 without candidates.
Greatest(sc) ==
    LET S == {sc[k] : k \in 1..Len(sc)} \cup {0}
    IN  CHOOSE x \in S : \A y \in S : y <= x

\* C1: selectBestTable returns the candidate whose score is the maximum over
\* all candidates, the first in document order among those that share the
\* maximum, with index its 1-based position among all candidates.
C1_BestIsFirstMaximum ==
    (pc = "returned" /\ result.found) =>
        LET sc == Scores
            m  == Greatest(sc)
        IN  /\ result.index \in 1..Len(candidates)
            /\ result.index = Min({k \in 1..Len(candidates) : sc[k] = m})
            /\ result.score = m
            /\ result.records = ParseFragment(candidates[result.index])

\* The second candidate is returned; the third has the same score and other
\* records, the first a lower score.
C1_Witness ==
    /\ pc = "returned"
    /\ result.found
    /\ result.index = 2
    /\ Len(candidates) = 3
    /\ ScoreOfCandidate(3) = result.score
    /\ ParseFragment(candidates[3]) # result.records
    /\ ParseFragment(candidates[1]) # <<>>

\* C2: NotFound is returned exactly when there is no candidate, or every
\* candidate yields no record, or the best score is 0; otherwise the result
\* has at least one record and a score of at least 1.
C2_NotFoundExactly ==
    pc = "returned" =>
        /\ ~result.found <=>
              \/ Len(candidates) = 0
              \/ \A k \in 1..Len(candidates) : ParseFragment(candidates[k]) = <<>>
              \/ Greatest(Scores) = 0
        /\ result.found => Len(result.records) >= 1 /\ result.score >= 1
        /\ ~result.found => result = NotFound

\* NotFound although candidates yield records: none has a reference name.
C2_Witness ==
    /\ pc = "returned"
    /\ ~result.found
    /\ referenceNames # {}
    /\ \E k \in 1..Len(candidates) : Len(ParseFragment(candidates[k])) = 2

\* Whether s holds a table: an opening tag with a closing tag after it.
HoldsTable(s) ==
    \E i \in 1..Len(s) : \E j \in (i + 1)..Len(s) :
        s[i] = "<table>" /\ s[j] = "</table>"

\* A fragment from an opening tag to a closing tag with no closing tag before
\* its end.
ClosesOnce(f) ==
    /\ Len(f) >= 2
    /\ f[1] = "<table>"
    /\ f[Len(f)] = "</table>"
    /\ \A j \in 1..(Len(f) - 1) : f[j] # "</table>"

\* Whether frags[k], frags[k+1], ... lie in doc one after the other from
\* position from on, each beginning at the first opening tag that is left,
\* with no table left behind the last.
RECURSIVE LieInOrder(_, _, _, _)
LieInOrder(doc, frags, k, from) ==
    IF k > Len(frags) THEN ~HoldsTable(SubSeq(doc, from, Len(doc)))
    ELSE LET o == IndexFrom(doc, {"<table>"}, from)
             e == o + Len(frags[k]) - 1
         IN  /\ o # 0
             /\ e <= Len(doc)
             /\ frags[k] = SubSeq(doc, o, e)
             /\ LieInOrder(doc, frags, k + 1, e + 1)

NbspEntity == <<"&", "n", "b", "s", "p", ";">>
AmpEntity == <<"&", "a", "m", "p", ";">>
OtherEntity == <<"&", "#", "3", "9", ";">>

\* A tag: a "<" with a ">" somewhere after it.
TagFree(t) ==
    \A i \in 1..Len(t) : \A j \in (i + 1)..Len(t) : ~(t[i] = "<" /\ t[j] = ">")

Occurs(t, pat) == \E p \in 1..Len(t) : OccursAt(t, pat, p)

\* Position j of t is within a tag: some "<" at or before j has no ">"
\* between itself and j, and there is a ">" at or after j.
InTag(t, j) ==
    /\ \E i \in 1..j : t[i] = "<" /\ \A k \in i..(j - 1) : t[k] # ">"
    /\ \E c \in j..Len(t) : t[c] = ">"

\* t without the positions within tags.
OutsideTags(t) ==
    LET K == {j \in 1..Len(t) : ~InTag(t, j)}
    IN  [i \in 1..Cardinality(K) |->
            t[CHOOSE j \in K : Cardinality({x \in K : x <= j}) = i]]

\* t with each of the two entities decoded, once, in one pass.
RECURSIVE DecodeFrom(_, _)
DecodeFrom(t, p) ==
    IF p > Len(t) THEN <<>>
    ELSE IF OccursAt(t, NbspEntity, p)
         THEN <<" ">> \o DecodeFrom(t, p + Len(NbspEntity))
    ELSE IF OccursAt(t, AmpEntity, p)
         THEN <<"&">> \o DecodeFrom(t, p + Len(AmpEntity))
    ELSE <<t[p]>> \o DecodeFrom(t, p + 1)

\* C12: the clean-up gives the text outside the tags with each &nbsp; turned
\* into a space and each &amp; into an ampersand, trimmed, and no tag is left
\* in it; a text without tags and without the two entities comes back
\* trimmed and otherwise as it was, and another entity stays as it is.
C12_NormalizeStripsDecodesTrims ==
    pc = "normalized" =>
        /\ content = Trim(DecodeFrom(OutsideTags(raw), 1))
        /\ TagFree(content)
        /\ (TagFree(raw) /\ ~Occurs(raw, NbspEntity) /\ ~Occurs(raw, AmpEntity))
               => content = Trim(raw)
        /\ (TagFree(raw) /\ Occurs(raw, OtherEntity))
               => Occurs(content, OtherEntity)

\* A cell with a tag and an encoded ampersand before "nbsp;": the clean-up
\* gives the text of the entity and does not decode it a second time.
C12_Witness ==
    /\ pc = "normalized"
    /\ ~TagFree(raw)
    /\ Occurs(raw, AmpEntity)
    /\ content = NbspEntity

\* The name of an attribute, letter by letter.
KeyChars(k) ==
    CASE k = "position" -> <<"p", "o", "s", "i", "t", "i", "o", "n">>
      [] k = "played" -> <<"p", "l", "a", "y", "e", "d">>
      [] k = "wins" -> <<"w", "i", "n", "s">>
      [] k = "otWins" -> <<"o", "t", "W", "i", "n", "s">>
      [] k = "otLosses" -> <<"o", "t", "L", "o", "s", "s", "e", "s">>
      [] k = "losses" -> <<"l", "o", "s", "s", "e", "s">>
      [] k = "goalsFor" -> <<"g", "o", "a", "l", "s", "F", "o", "r">>
      [] k = "goalsAgainst" -> <<"g", "o", "a", "l", "s", "A", "g", "a", "i", "n", "s", "t">>
      [] k = "points" -> <<"p", "o", "i", "n", "t", "s">>

AttributeSet == {Attributes[i] : i \in 1..Len(Attributes)}

\* The fields of the schema whose name n(f), lower-cased and without white
\* space, is the lower-cased name of attribute k.
Matching(k, n(_)) ==
    {i \in 1..Len(schema) :
        RemoveWhiteSpace(ToLowerCase(n(schema[i]))) = ToLowerCase(KeyChars(k))}

\* The map has exactly the attributes some field matches by n, each with the
\* slug of such a field.
MapIsOfMatches(n(_)) ==
    /\ DOMAIN fieldMap \subseteq AttributeSet
    /\ \A k \in AttributeSet :
          /\ k \in DOMAIN fieldMap <=> Matching(k, n) # {}
          /\ k \in DOMAIN fieldMap =>
                \E i \in Matching(k, n) : fieldMap[k] = schema[i].slug

DisplayNameOnly(f) == f.displayName

\* C13 as stated: an attribute is in the map exactly when the displayName of
\* some field matches it.
C13_KeyIffDisplayNameMatches ==
    pc = "mapped" => MapIsOfMatches(DisplayNameOnly)

\* The name buildFieldMap goes by: the displayName, the name when there is
\* no displayName, the slug when there is neither.
NameGoneBy(f) ==
    IF f.displayName # <<>> THEN f.displayName
    ELSE IF f.name # <<>> THEN f.name ELSE f.slug

\* C13 amended: an attribute is in the map exactly when the displayName of
\* some field - or its name when it has no displayName, or its slug when it
\* has neither - lower-cased and without white space, is the lower-cased name
\* of the attribute; its value is the slug of such a field; other fields add
\* nothing.
C13_KeyIffNameGoneByMatches ==
    pc = "mapped" => MapIsOfMatches(NameGoneBy)

\* A map with two attributes, one from a displayName with white space in it
\* and one from a field without displayName.
C13_Witness ==
    /\ pc = "mapped"
    /\ Cardinality(DOMAIN fieldMap) = 2
    /\ \E i \in 1..Len(schema) : schema[i].displayName = <<>>
    /\ \E i \in 1..Len(schema) :
          \E j \in 1..Len(schema[i].displayName) :
              schema[i].displayName[j] \in WhiteSpace

\* The write requests of the log, and what the log tells of them.
Writes == {i \in 1..Len(requests) : requests[i].kind \in {"create", "update"}}
Rejected == {i \in 1..Len(requests) : requests[i].state = "rejected"}
Answered2xx(i) ==
    requests[i].state = "resolved" /\ requests[i].status \in 200..299
AnsweredOther(i) ==
    requests[i].state = "resolved" /\ requests[i].status \notin 200..299

\* The page has come and parseTable has found no record in it.
ExtractedNothing ==
    /\ \E i \in 1..Len(requests) :
          requests[i].kind = "html" /\ requests[i].state = "resolved"
    /\ teams = <<>>

\* The run exits with 1 only without configuration, without records, or
\* after a request that failed.
ExitsForCause ==
    exitCode = 1 => (~configured \/ ExtractedNothing \/ Rejected # {})

\* C14: the field data of a write holds, for each attribute the field map
\* has, the record's value under the slug of the map, and nothing else but
\* name and slug in a create: an attribute the map does not have is not
\* written under any key, and no run exits for it.
C14_OnlyMappedSlugsEmitted ==
    /\ \A i \in Writes :
          LET team == teams[requests[i].recordNo]
              fd   == requests[i].fieldData
          IN  /\ \A k \in DOMAIN fieldMap :
                    fieldMap[k] \in DOMAIN fd /\ fd[fieldMap[k]] = team[k]
              /\ DOMAIN fd =
                    {fieldMap[k] : k \in DOMAIN fieldMap}
                      \cup (IF requests[i].kind = "create"
                            THEN {NameSlug, SlugSlug} ELSE {})
    /\ ExitsForCause

\* A run that ends with a create and an update under a map of two of the
\* nine attributes.
C14_Witness ==
    /\ pc = "complete"
    /\ Cardinality(DOMAIN fieldMap) = 2
    /\ \E i \in Writes : requests[i].kind = "create"
    /\ \E i \in Writes : requests[i].kind = "update"

\* C15: when parseTable finds no record the run has exited with 1 and the
\* log holds no create, update or publish request.
C15_NoRecordsAbortsBeforeWrites ==
    ExtractedNothing =>
        /\ pc = "exit"
        /\ exitCode = 1
        /\ \A i \in 1..Len(requests) :
              requests[i].kind \notin {"create", "update", "publish"}

\* A page with the marker and a table, but no usable row.
C15_Witness ==
    /\ ExtractedNothing
    /\ exitCode = 1
    /\ TableMatch(html) # <<>>

\* The requests of publishItems: the publish request and the listing of the
\* items before it, which is the second listing of the run.
PublishCalls ==
    {j \in 1..Len(requests) :
        \/ requests[j].kind = "publish"
        \/ /\ requests[j].kind = "items"
           /\ \E i \in 1..(j - 1) : requests[i].kind = "items"}

\* C16: only the request issued last can be without its answer; the writes
\* are issued in the order of the records; the requests of publishItems come
\* after the answered write of the last record.
C16_RequestsSequential ==
    /\ \A i \in 1..(Len(requests) - 1) : requests[i].state # "pending"
    /\ \A i \in Writes :
          requests[i].recordNo = Cardinality({j \in Writes : j <= i})
    /\ \A j \in PublishCalls :
          {requests[i].recordNo : i \in {w \in Writes : w < j}} = 1..Len(teams)

\* A run of two records and more that ends after a publish request.
C16_Witness ==
    /\ pc = "complete"
    /\ Len(teams) >= 2
    /\ requests[Len(requests)].kind = "publish"

\* The listed items that have the name of a record, by their place in the list.
StoredUnder(name) ==
    {n \in 1..Len(existingItems) :
        existingItems[n].name # <<>> /\ existingItems[n].name = name}

\* C17: no record has two writes, every record the loop is through has one,
\* all of them when the loop is over; the write is an update of the item
\* listed last under exactly the record's name when there is one, and a
\* create when there is none.
C17_OneWritePerRecord ==
    /\ \A i \in Writes : requests[i].recordNo \in 1..Len(teams)
    /\ \A k \in 1..Len(teams) :
          LET n == Cardinality({i \in Writes : requests[i].recordNo = k})
          IN  /\ n <= 1
              /\ k <= teamNo => n = 1
              /\ pc \in {"awaitPublishItems", "awaitPublish", "complete"} => n = 1
    /\ \A i \in Writes :
          LET S == StoredUnder(teams[requests[i].recordNo].name)
          IN  IF S # {}
              THEN /\ requests[i].kind = "update"
                   /\ requests[i].itemId =
                         existingItems[CHOOSE n \in S : \A m \in S : m <= n].id
              ELSE requests[i].kind = "create"

\* A run that ends after a create for a record whose name is listed in
\* another case, with two items listed or more.
C17_Witness ==
    /\ pc = "complete"
    /\ \E i \in Writes :
          /\ requests[i].kind = "create"
          /\ \E n \in 1..Len(existingItems) :
                /\ existingItems[n].name # teams[requests[i].recordNo].name
                /\ ToLowerCase(existingItems[n].name)
                      = ToLowerCase(teams[requests[i].recordNo].name)

\* C18: a write answered with another status than 2xx does not end the run -
\* unless a request fails, the run goes on to write every record and to call
\* publishItems - and the two counters add up to the number of writes
\* answered with 2xx, which is at most the number of records.
C18_FailedWritesDoNotStop ==
    /\ created + updated = Cardinality({i \in Writes : Answered2xx(i)})
    /\ created + updated <= Len(teams)
    /\ ((\E i \in Writes : AnsweredOther(i)) /\ Rejected = {}) => pc # "exit"
    /\ pc = "complete" =>
          /\ Cardinality(Writes) = Len(teams)
          /\ PublishCalls # {}

\* A run that ends after a failed write, a later write and a publish request,
\* with one success counted.
C18_Witness ==
    /\ pc = "complete"
    /\ \E i \in Writes : AnsweredOther(i) /\ \E j \in Writes : j > i
    /\ \E j \in 1..Len(requests) : requests[j].kind = "publish"
    /\ created + updated = 1

=============================================================================
